---- MODULE Spec2Model ----
(***************************************************************************)
(* Model of the two image-synthesis optimisation cores of the notebooks:   *)
(*   - the Evaluator adapter of the neural-style-transfer notebook         *)
(*     (Ch.8_3_Neural_Style_Transfer.ipynb), which lets SciPy's L-BFGS      *)
(*     fetch a loss and its gradient with two separate calls;              *)
(*   - the DeepDream notebook (unnamed/part_002): gradient_ascent, the     *)
(*     list of octave shapes, resize_img and the loop over the octaves.    *)
(*                                                                         *)
(* Python values are tagged records, so that None, a scalar and an ndarray *)
(* can be compared.  Floating-point payloads are modelled as exact         *)
(* integers (rounding is not modelled).  An ndarray keeps its shape, its   *)
(* dtype and its elements in C (row-major) order.                          *)
(***************************************************************************)
EXTENDS Integers, Sequences, FiniteSets, TLC

\* ------------------------------------------------------------------ bounds
\* Calls made on the Evaluator in one behaviour.
MaxCalls == 4
\* Loss values the external model may return: 0..MaxLossValue.
MaxLossValue == 2
\* Height and width of the style-transfer image (400 x width in the notebook).
img_height == 1
img_width == 1
\* Largest iteration count passed to gradient_ascent.
MaxIterations == 3
\* Largest height and width of a base image whose list of shapes is built.
MaxDim == 8
\* Largest num_octave.
MaxOctave == 3
\* Largest height and width of an image that is resampled.
MaxImageDim == 3

\* ------------------------------------------------------------ Python values
None == [type |-> "NoneType"]
\* An attribute that was never assigned (reading it raises AttributeError).
NoAttribute == [type |-> "<no attribute>"]
Float(v) == [type |-> "float", v |-> v]
NdArray(shp, dtype, data) ==
    [type |-> "ndarray", shape |-> shp, dtype |-> dtype, data |-> data]

RECURSIVE Prod(_)
Prod(s) == IF s = <<>> THEN 1 ELSE Head(s) * Prod(Tail(s))

\* numpy.ndarray.reshape: same elements in C order under a new shape; the
\* element count must match (ValueError otherwise).
CanReshape(a, shp) == Prod(shp) = Len(a.data)
reshape(a, shp) == NdArray(shp, a.dtype, a.data)
\* numpy.ndarray.flatten: a one-dimensional copy in C order.
flatten(a) == NdArray(<<Len(a.data)>>, a.dtype, a.data)
\* numpy.ndarray.astype: the same values under another dtype (float32 to
\* float64 widens exactly).
astype(a, dtype) == NdArray(a.shape, dtype, a.data)
\* numpy.copy: a new array with the same shape, dtype and elements; of a
\* value that is no array (None), a zero-dimensional object array holding it.
np_copy(a) ==
    IF a.type = "ndarray"
    THEN NdArray(a.shape, a.dtype, a.data)
    ELSE NdArray(<<>>, "object", <<a>>)

\* Element vectors of length n used as payloads: constant vectors and
\* vectors that differ in their first element.
Vectors(n, vals) ==
    {[k \in 1..n |-> v] : v \in vals}
        \cup {[k \in 1..n |-> IF k = 1 THEN v ELSE 0] : v \in vals}

\* ---------------------------------------------------------------- state
VARIABLES
    \* Evaluator fields
    self_loss_value,    \* self.loss_value
    self_grads_values,  \* self.grads_values (set by __init__ only)
    self_grad_values,   \* self.grad_values (first set by loss)
    \* the last Evaluator call: what was called, with what, and its outcome
    e_call,
    \* bookkeeping of the Evaluator's history
    n_fetch,            \* invocations of fetch_loss_and_grads
    n_loss_accepted,    \* loss calls that passed their assertion
    n_grads_accepted,   \* grads calls that passed their assertion
    n_calls,            \* calls made on the Evaluator
    n_pairs,            \* (loss, gradient) pairs computed and cached
    pending_outs,       \* outs of the evaluation whose pair is cached
    pending_x,          \* candidate of the loss call whose pair is cached
    alternates,         \* the calls so far were loss, grads, loss, grads, ...
    loss_refused,       \* a loss call was refused since the last pair was cached
    \* memory: the arrays alive, by reference (1, 2, ...); 0 is no reference
    heap,
    \* gradient_ascent: parameters and locals
    x,                  \* reference to the array x names
    iterations,
    step,
    max_loss,           \* None or a float
    i,                  \* loop index (-1 before the first iteration)
    loss_value,
    grad_values,
    pc,                 \* next statement of gradient_ascent
    ret,                \* reference returned (0 before the return)
    \* bookkeeping of the run of gradient_ascent
    arg_x,              \* reference the caller passed as x
    input_data,         \* elements of the caller's array at the call
    n_evals,            \* calls of eval_loss_and_grads
    n_updates,          \* executions of x += step * grad_values
    eval_data,          \* elements of x at the last evaluation
    first_loss,         \* loss returned by the first evaluation
    applied_loss,       \* loss of the step whose update was applied last
    crossed,            \* an evaluation returned a loss above max_loss
    cross_data,         \* elements of x at the first such evaluation
    cross_updates,      \* n_updates at the first such evaluation
    cross_evals,        \* n_evals just after the first such evaluation
    grad_sum,           \* element-wise sum of the gradients applied so far
    \* DeepDream driver: the list of shapes
    original_shape,     \* img.shape[1:3] of the base image
    num_octave,
    octave_scale,       \* a fraction <<numerator, denominator>>
    successive_shapes,
    shape_i,            \* index of the loop that builds successive_shapes
    spc,                \* next statement of the cell that builds the list
    \* DeepDream driver: the loop over the octaves (references into heap)
    img,
    original_img,
    shrunk_original_img,
    upscaled_shrunk_original_img,
    same_size_original,
    lost_detail,
    shape,              \* loop variable: the shape of the current octave
    oct_k,              \* position of shape in successive_shapes (0 before)
    opc,                \* next statement of the cell that runs the octaves
    \* bookkeeping of the run over the octaves
    base_data,          \* elements of the base image as loaded
    visited,            \* the shapes whose octave was entered, in order
    asc_data,           \* elements gradient_ascent returned in this octave
    n_reinjected,       \* executions of img += lost_detail
    stages,             \* what the current octave has done so far, in order
    trips,              \* positions of the octaves whose ascent hit max_loss
    n_saved,            \* calls of save_img
    n_evals_done        \* evaluations of the calls of gradient_ascent over

evars == <<self_loss_value, self_grads_values, self_grad_values, e_call,
           n_fetch, n_loss_accepted, n_grads_accepted, n_calls, n_pairs,
           pending_outs, pending_x, alternates,
           loss_refused>>

avars == <<heap, x, iterations, step, max_loss, i, loss_value, grad_values,
           pc, ret, arg_x, input_data, n_evals, n_updates, eval_data,
           first_loss, applied_loss, crossed, cross_data, cross_updates,
           cross_evals, grad_sum>>

svars == <<original_shape, num_octave, octave_scale, successive_shapes,
           shape_i, spc>>

lvars == <<img, original_img, shrunk_original_img,
           upscaled_shrunk_original_img, same_size_original, lost_detail,
           shape, oct_k, opc, base_data, visited, asc_data, n_reinjected,
           stages, trips, n_saved, n_evals_done>>

dvars == <<svars, lvars>>

vars == <<evars, avars, dvars>>

\* ------------------------------------------------- style transfer: Evaluator
\* The flat float64 vectors fmin_l_bfgs_b passes to its callbacks: the
\* flattened image and the iterates that follow it.
Candidates ==
    {NdArray(<<img_height * img_width * 3>>, "float64", d) :
        d \in Vectors(img_height * img_width * 3, {0, 1})}

\* fetch_loss_and_grads = K.function([combination_image], [loss, grads]):
\* the external model.  A call either raises or returns [loss, grads],
\* grads having the shape of combination_image.
EvalRaises == [type |-> "raises"]
FetchOutcomes(cand) ==
    {EvalRaises}
        \cup {[type |-> "outs",
               loss |-> Float(l),
               grads |-> NdArray(cand.shape, "float32", g)] :
                l \in 0..MaxLossValue, g \in Vectors(Len(cand.data), {1, 2})}

NoCall == [op |-> "none", status |-> "none", arg |-> None, value |-> None]
Call(op, status, cand, value) ==
    [op |-> op, status |-> status, arg |-> cand, value |-> value]

\* Evaluator.__init__ with a slip: the loss initialised to 0 for None.
Evaluator_init_zero ==
    /\ self_loss_value = Float(0)
    /\ self_grads_values = None
    /\ self_grad_values = NoAttribute

\* Evaluator.__init__
Evaluator_init ==
    /\ self_loss_value = None
    /\ self_grads_values = None
    /\ self_grad_values = NoAttribute

\* assert self.loss_value is None (the assertion dropped, then as written)
loss_assertion_dropped == TRUE
loss_assertion == self_loss_value = None

\* assert self.loss_value is not None (dropped, then as written)
grads_assertion_dropped == TRUE
grads_assertion == self_loss_value # None

\* Evaluator.loss with a slip: the gradient is not stored.
Evaluator_loss_caches_loss_only(cand, outs) ==
    /\ n_calls < MaxCalls
    /\ n_calls' = n_calls + 1
    /\ alternates' = (alternates /\ n_calls % 2 = 0)
    /\ UNCHANGED <<self_grads_values, n_grads_accepted>>
    /\ IF ~loss_assertion
       THEN /\ e_call' = Call("loss", "AssertionError", cand, None)
            /\ loss_refused' = TRUE
            /\ UNCHANGED <<self_loss_value, self_grad_values, n_fetch,
                           n_loss_accepted, n_pairs, pending_outs, pending_x>>
       ELSE /\ n_loss_accepted' = n_loss_accepted + 1
            /\ CanReshape(cand, <<1, img_height, img_width, 3>>)
            /\ outs \in FetchOutcomes(
                            reshape(cand, <<1, img_height, img_width, 3>>))
            /\ n_fetch' = n_fetch + 1
            /\ IF outs = EvalRaises
               THEN /\ e_call' = Call("loss", "EvaluationError", cand, None)
                    /\ UNCHANGED <<self_loss_value, self_grad_values,
                                   n_pairs, pending_outs, pending_x,
                                   loss_refused>>
               ELSE LET loss_value_ == outs.loss
                        grad_values_ == astype(flatten(outs.grads), "float64")
                    IN  /\ self_loss_value' = loss_value_
                        /\ UNCHANGED self_grad_values
                        /\ n_pairs' = n_pairs + 1
                        /\ pending_outs' = outs
                        /\ pending_x' = cand
                        /\ loss_refused' = FALSE
                        /\ e_call' = Call("loss", "ok", cand, self_loss_value')

\* Evaluator.loss with a slip: the model is evaluated before the assertion.
Evaluator_loss_asserts_late(cand, outs) ==
    /\ n_calls < MaxCalls
    /\ n_calls' = n_calls + 1
    /\ alternates' = (alternates /\ n_calls % 2 = 0)
    /\ UNCHANGED <<self_grads_values, n_grads_accepted>>
    /\ IF ~loss_assertion
       THEN /\ e_call' = Call("loss", "AssertionError", cand, None)
            /\ loss_refused' = TRUE
            /\ n_fetch' = n_fetch + 1
            /\ UNCHANGED <<self_loss_value, self_grad_values,
                           n_loss_accepted, n_pairs, pending_outs, pending_x>>
       ELSE /\ n_loss_accepted' = n_loss_accepted + 1
            /\ CanReshape(cand, <<1, img_height, img_width, 3>>)
            /\ outs \in FetchOutcomes(
                            reshape(cand, <<1, img_height, img_width, 3>>))
            /\ n_fetch' = n_fetch + 1
            /\ IF outs = EvalRaises
               THEN /\ e_call' = Call("loss", "EvaluationError", cand, None)
                    /\ UNCHANGED <<self_loss_value, self_grad_values,
                                   n_pairs, pending_outs, pending_x,
                                   loss_refused>>
               ELSE LET loss_value_ == outs.loss
                        grad_values_ == astype(flatten(outs.grads), "float64")
                    IN  /\ self_loss_value' = loss_value_
                        /\ self_grad_values' = grad_values_
                        /\ n_pairs' = n_pairs + 1
                        /\ pending_outs' = outs
                        /\ pending_x' = cand
                        /\ loss_refused' = FALSE
                        /\ e_call' = Call("loss", "ok", cand, self_loss_value')

\* Evaluator.loss with a slip: the loss is marked pending before the model
\* is evaluated, and stays so when the evaluation raises.
Evaluator_loss_marks_before_fetch(cand, outs) ==
    /\ n_calls < MaxCalls
    /\ n_calls' = n_calls + 1
    /\ alternates' = (alternates /\ n_calls % 2 = 0)
    /\ UNCHANGED <<self_grads_values, n_grads_accepted>>
    /\ IF ~loss_assertion
       THEN /\ e_call' = Call("loss", "AssertionError", cand, None)
            /\ loss_refused' = TRUE
            /\ UNCHANGED <<self_loss_value, self_grad_values, n_fetch,
                           n_loss_accepted, n_pairs, pending_outs, pending_x>>
       ELSE /\ n_loss_accepted' = n_loss_accepted + 1
            /\ CanReshape(cand, <<1, img_height, img_width, 3>>)
            /\ outs \in FetchOutcomes(
                            reshape(cand, <<1, img_height, img_width, 3>>))
            /\ n_fetch' = n_fetch + 1
            /\ IF outs = EvalRaises
               THEN /\ e_call' = Call("loss", "EvaluationError", cand, None)
                    /\ self_loss_value' = Float(0)
                    /\ UNCHANGED <<self_grad_values,
                                   n_pairs, pending_outs, pending_x,
                                   loss_refused>>
               ELSE LET loss_value_ == outs.loss
                        grad_values_ == astype(flatten(outs.grads), "float64")
                    IN  /\ self_loss_value' = loss_value_
                        /\ self_grad_values' = grad_values_
                        /\ n_pairs' = n_pairs + 1
                        /\ pending_outs' = outs
                        /\ pending_x' = cand
                        /\ loss_refused' = FALSE
                        /\ e_call' = Call("loss", "ok", cand, self_loss_value')

\* Evaluator.loss(cand), the external model answering outs
Evaluator_loss(cand, outs) ==
    /\ n_calls < MaxCalls
    /\ n_calls' = n_calls + 1
    /\ alternates' = (alternates /\ n_calls % 2 = 0)
    /\ UNCHANGED <<self_grads_values, n_grads_accepted>>
    /\ IF ~loss_assertion
       THEN /\ e_call' = Call("loss", "AssertionError", cand, None)
            /\ loss_refused' = TRUE
            /\ UNCHANGED <<self_loss_value, self_grad_values, n_fetch,
                           n_loss_accepted, n_pairs, pending_outs, pending_x>>
       ELSE /\ n_loss_accepted' = n_loss_accepted + 1
            /\ CanReshape(cand, <<1, img_height, img_width, 3>>)
            /\ outs \in FetchOutcomes(
                            reshape(cand, <<1, img_height, img_width, 3>>))
            /\ n_fetch' = n_fetch + 1
            /\ IF outs = EvalRaises
               THEN /\ e_call' = Call("loss", "EvaluationError", cand, None)
                    /\ UNCHANGED <<self_loss_value, self_grad_values,
                                   n_pairs, pending_outs, pending_x,
                                   loss_refused>>
               ELSE LET loss_value_ == outs.loss
                        grad_values_ == astype(flatten(outs.grads), "float64")
                    IN  /\ self_loss_value' = loss_value_
                        /\ self_grad_values' = grad_values_
                        /\ n_pairs' = n_pairs + 1
                        /\ pending_outs' = outs
                        /\ pending_x' = cand
                        /\ loss_refused' = FALSE
                        /\ e_call' = Call("loss", "ok", cand, self_loss_value')

\* Evaluator.grads with a slip: the forward/backward pass is run again
\* instead of being taken from the cache.
Evaluator_grads_reevaluates(cand) ==
    /\ n_calls < MaxCalls
    /\ n_calls' = n_calls + 1
    /\ alternates' = (alternates /\ n_calls % 2 = 1)
    /\ UNCHANGED <<loss_refused, self_grads_values, n_loss_accepted, n_pairs>>
    /\ IF ~grads_assertion
       THEN /\ e_call' = Call("grads", "AssertionError", cand, None)
            /\ UNCHANGED <<self_loss_value, self_grad_values, n_fetch,
                           n_grads_accepted, pending_outs, pending_x>>
       ELSE /\ n_grads_accepted' = n_grads_accepted + 1
            /\ n_fetch' = n_fetch + 1
            /\ self_loss_value' = None
            /\ self_grad_values' = None
            /\ e_call' = Call("grads", "ok", cand, np_copy(self_grad_values))
            /\ UNCHANGED <<pending_outs, pending_x>>

\* Evaluator.grads with a slip: the cache is not cleared.
Evaluator_grads_keeps_cache(cand) ==
    /\ n_calls < MaxCalls
    /\ n_calls' = n_calls + 1
    /\ alternates' = (alternates /\ n_calls % 2 = 1)
    /\ UNCHANGED <<loss_refused, self_grads_values, n_fetch, n_loss_accepted, n_pairs>>
    /\ IF ~grads_assertion
       THEN /\ e_call' = Call("grads", "AssertionError", cand, None)
            /\ UNCHANGED <<self_loss_value, self_grad_values,
                           n_grads_accepted, pending_outs, pending_x>>
       ELSE /\ n_grads_accepted' = n_grads_accepted + 1
            /\ e_call' = Call("grads", "ok", cand, np_copy(self_grad_values))
            /\ UNCHANGED <<self_loss_value, self_grad_values,
                           pending_outs, pending_x>>

\* Evaluator.grads changed to refuse a candidate other than the one the
\* pending pair was computed for.
Evaluator_grads_checks_candidate(cand) ==
    /\ n_calls < MaxCalls
    /\ n_calls' = n_calls + 1
    /\ alternates' = (alternates /\ n_calls % 2 = 1)
    /\ UNCHANGED <<loss_refused, self_grads_values, n_fetch, n_loss_accepted, n_pairs>>
    /\ IF ~grads_assertion \/ cand # pending_x
       THEN /\ e_call' = Call("grads", "AssertionError", cand, None)
            /\ UNCHANGED <<self_loss_value, self_grad_values,
                           n_grads_accepted, pending_outs, pending_x>>
       ELSE /\ n_grads_accepted' = n_grads_accepted + 1
            /\ self_loss_value' = None
            /\ self_grad_values' = None
            /\ e_call' = Call("grads", "ok", cand, np_copy(self_grad_values))
            /\ UNCHANGED <<pending_outs, pending_x>>

\* Evaluator.grads(cand)
Evaluator_grads(cand) ==
    /\ n_calls < MaxCalls
    /\ n_calls' = n_calls + 1
    /\ alternates' = (alternates /\ n_calls % 2 = 1)
    /\ UNCHANGED <<loss_refused, self_grads_values, n_fetch, n_loss_accepted, n_pairs>>
    /\ IF ~grads_assertion
       THEN /\ e_call' = Call("grads", "AssertionError", cand, None)
            /\ UNCHANGED <<self_loss_value, self_grad_values,
                           n_grads_accepted, pending_outs, pending_x>>
       ELSE /\ n_grads_accepted' = n_grads_accepted + 1
            /\ UNCHANGED <<pending_outs, pending_x>>
            /\ IF self_grad_values = NoAttribute
               THEN \* np.copy(self.grad_values) on an attribute never set
                    /\ e_call' = Call("grads", "AttributeError", cand, None)
                    /\ UNCHANGED <<self_loss_value, self_grad_values>>
               ELSE LET grad_values_ == np_copy(self_grad_values)
                    IN  /\ self_loss_value' = None
                        /\ self_grad_values' = None
                        /\ e_call' = Call("grads", "ok", cand, grad_values_)

EvaluatorInit ==
    /\ Evaluator_init
    /\ e_call = NoCall
    /\ n_fetch = 0
    /\ n_loss_accepted = 0
    /\ n_grads_accepted = 0
    /\ n_calls = 0
    /\ n_pairs = 0
    /\ pending_outs = None
    /\ pending_x = None
    /\ alternates = TRUE
    /\ loss_refused = FALSE

\* fmin_l_bfgs_b (or any caller) calls evaluator.loss
CallLoss ==
    /\ \E cand \in Candidates :
        \E outs \in FetchOutcomes(reshape(cand, <<1, img_height, img_width, 3>>)) :
            Evaluator_loss(cand, outs)
    /\ UNCHANGED <<avars, dvars>>

\* fmin_l_bfgs_b (or any caller) calls evaluator.grads
CallGrads ==
    /\ \E cand \in Candidates : Evaluator_grads(cand)
    /\ UNCHANGED <<avars, dvars>>

EvaluatorNext == CallLoss \/ CallGrads

\* ------------------------------------------------ DeepDream: gradient_ascent
\* Step sizes (0.01 in the notebook), as whole numbers of the payload unit;
\* a negative step makes the update a descent.
StepSizes == {-1, 1, 2}

\* The images gradient_ascent is called on: float32 arrays of shape
\* (1, height, width, 3), as preprocess_image and resize_img produce them.
InputImages ==
    {NdArray(<<1, 2, 2, 3>>, "float32", d) :
        d \in Vectors(12, {0, 1}) \cup {[k \in 1..12 |-> 10]}}

\* fetch_loss_and_grads = K.function([dream], [loss, grads]): the external
\* model.  A call either raises or returns [loss, grads], grads having the
\* shape of the input.  The answers are enumerated widely for a lone call
\* of gradient_ascent, and by fewer losses and gradients inside the run over
\* the octaves, where the calls follow one another.
DreamLosses == IF opc = "idle" THEN 0..MaxLossValue ELSE {0, MaxLossValue}
DreamGradients(n) ==
    IF opc = "idle"
    THEN Vectors(n, {-1, 0, 1}) \cup {[k \in 1..n |-> 2]}
    ELSE {[k \in 1..n |-> 1], [k \in 1..n |-> IF k = 1 THEN -1 ELSE 0]}
DreamOutcomes(a) ==
    {EvalRaises}
        \cup {[type |-> "outs",
               loss |-> Float(l),
               grads |-> NdArray(a.shape, "float32", g)] :
                l \in DreamLosses, g \in DreamGradients(Len(a.data))}

\* eval_loss_and_grads(x): (outs[0], outs[1]) of the external model's answer
eval_loss_and_grads(outs) == <<outs.loss, outs.grads>>

\* range(iterations) has an index after i (with two slips: off by one, and
\* range(2 * iterations); then as written)
loop_continues_inclusive == i + 1 <= iterations
loop_continues_twice_as_long == i + 1 < 2 * iterations
loop_continues == i + 1 < iterations

\* max_loss is not None and loss_value > max_loss (three slips: no guard, no
\* guard in iteration 0, >= for >; then as written)
guard_trips_never == FALSE
guard_trips_skips_first ==
    i > 0 /\ max_loss # None /\ loss_value.v > max_loss.v
guard_trips_geq == max_loss # None /\ loss_value.v >= max_loss.v
guard_trips == max_loss # None /\ loss_value.v > max_loss.v

\* step * grad_values added to the array a, element by element (with two
\* slips: the step left out, the product subtracted; then as written)
iadd_ignores_step(a, s, g) ==
    NdArray(a.shape, a.dtype, [k \in DOMAIN a.data |-> a.data[k] + g.data[k]])
iadd_subtracts(a, s, g) ==
    NdArray(a.shape, a.dtype, [k \in DOMAIN a.data |-> a.data[k] - s * g.data[k]])
iadd(a, s, g) ==
    NdArray(a.shape, a.dtype, [k \in DOMAIN a.data |-> a.data[k] + s * g.data[k]])

\* The state in which the body of gradient_ascent starts, called on an
\* image with the given arguments.
AscentInit ==
    \E image \in InputImages, n \in 0..MaxIterations, s \in StepSizes,
       m \in {None} \cup {Float(l) : l \in 0..(MaxLossValue - 1)} :
        /\ heap = <<image>>
        /\ arg_x = 1
        /\ x = 1
        /\ iterations = n
        /\ step = s
        /\ max_loss = m
        /\ i = -1
        /\ loss_value = None
        /\ grad_values = None
        /\ pc = "for"
        /\ ret = 0
        /\ input_data = image.data
        /\ n_evals = 0
        /\ n_updates = 0
        /\ eval_data = <<>>
        /\ first_loss = None
        /\ applied_loss = None
        /\ crossed = FALSE
        /\ cross_data = <<>>
        /\ cross_updates = 0
        /\ cross_evals = 0
        /\ grad_sum = [k \in DOMAIN image.data |-> 0]

\* for i in range(iterations):
AscentFor ==
    /\ pc = "for"
    /\ IF loop_continues
       THEN i' = i + 1 /\ pc' = "eval"
       ELSE i' = i /\ pc' = "return"
    /\ UNCHANGED <<heap, x, iterations, step, max_loss, loss_value,
                   grad_values, ret, arg_x, input_data, n_evals, n_updates,
                   eval_data, first_loss, applied_loss, crossed, cross_data,
                   cross_updates, cross_evals, grad_sum>>
    /\ UNCHANGED <<evars, dvars>>

\* loss_value, grad_values = eval_loss_and_grads(x)
AscentEval ==
    /\ pc = "eval"
    /\ \E outs \in DreamOutcomes(heap[x]) :
        /\ n_evals' = n_evals + 1
        /\ eval_data' = heap[x].data
        /\ IF outs = EvalRaises
           THEN /\ pc' = "raised"
                /\ UNCHANGED <<loss_value, grad_values, first_loss, crossed,
                               cross_data, cross_updates, cross_evals>>
           ELSE /\ loss_value' = eval_loss_and_grads(outs)[1]
                /\ grad_values' = eval_loss_and_grads(outs)[2]
                /\ pc' = "check"
                /\ first_loss' = IF n_evals = 0 THEN loss_value' ELSE first_loss
                /\ IF ~crossed /\ max_loss # None /\ loss_value'.v > max_loss.v
                   THEN /\ crossed' = TRUE
                        /\ cross_data' = heap[x].data
                        /\ cross_updates' = n_updates
                        /\ cross_evals' = n_evals + 1
                   ELSE UNCHANGED <<crossed, cross_data, cross_updates,
                                    cross_evals>>
    /\ UNCHANGED <<heap, x, iterations, step, max_loss, i, ret, arg_x,
                   input_data, n_updates, applied_loss, grad_sum>>
    /\ UNCHANGED <<evars, dvars>>

\* The check with a slip: continue instead of break.
AscentCheck_continues ==
    /\ pc = "check"
    /\ pc' = IF guard_trips THEN "for" ELSE "update"
    /\ UNCHANGED <<heap, x, iterations, step, max_loss, i, loss_value,
                   grad_values, ret, arg_x, input_data, n_evals, n_updates,
                   eval_data, first_loss, applied_loss, crossed, cross_data,
                   cross_updates, cross_evals, grad_sum>>
    /\ UNCHANGED <<evars, dvars>>

\* if max_loss is not None and loss_value > max_loss: break
AscentCheck ==
    /\ pc = "check"
    /\ pc' = IF guard_trips THEN "return" ELSE "update"
    /\ UNCHANGED <<heap, x, iterations, step, max_loss, i, loss_value,
                   grad_values, ret, arg_x, input_data, n_evals, n_updates,
                   eval_data, first_loss, applied_loss, crossed, cross_data,
                   cross_updates, cross_evals, grad_sum>>
    /\ UNCHANGED <<evars, dvars>>

\* The update with a slip: x = x + step * grad_values, which binds x to a
\* new array and leaves the caller's array alone.
AscentUpdate_rebinds ==
    /\ pc = "update"
    /\ heap' = Append(heap, iadd(heap[x], step, grad_values))
    /\ x' = Len(heap) + 1
    /\ n_updates' = n_updates + 1
    /\ applied_loss' = loss_value
    /\ grad_sum' = [k \in DOMAIN grad_sum |-> grad_sum[k] + grad_values.data[k]]
    /\ pc' = "for"
    /\ UNCHANGED <<iterations, step, max_loss, i, loss_value, grad_values,
                   ret, arg_x, input_data, n_evals, eval_data, first_loss,
                   crossed, cross_data, cross_updates, cross_evals>>
    /\ UNCHANGED <<evars, dvars>>

\* print(...); x += step * grad_values   (in place: the array x names changes)
AscentUpdate ==
    /\ pc = "update"
    /\ heap' = [heap EXCEPT ![x] = iadd(@, step, grad_values)]
    /\ n_updates' = n_updates + 1
    /\ applied_loss' = loss_value
    /\ grad_sum' = [k \in DOMAIN grad_sum |-> grad_sum[k] + grad_values.data[k]]
    /\ pc' = "for"
    /\ UNCHANGED <<x, iterations, step, max_loss, i, loss_value, grad_values,
                   ret, arg_x, input_data, n_evals, eval_data, first_loss,
                   crossed, cross_data, cross_updates, cross_evals>>
    /\ UNCHANGED <<evars, dvars>>

\* return x
AscentReturn ==
    /\ pc = "return"
    /\ ret' = x
    /\ pc' = "returned"
    /\ UNCHANGED <<heap, x, iterations, step, max_loss, i, loss_value,
                   grad_values, arg_x, input_data, n_evals, n_updates,
                   eval_data, first_loss, applied_loss, crossed, cross_data,
                   cross_updates, cross_evals, grad_sum>>
    /\ UNCHANGED <<evars, dvars>>

AscentNext ==
    AscentFor \/ AscentEval \/ AscentCheck \/ AscentUpdate \/ AscentReturn

\* --------------------------------------------- DeepDream: successive_shapes
\* Values of octave_scale (1.4 in the notebook), as fractions.
OctaveScales == {<<1, 1>>, <<5, 4>>, <<7, 5>>, <<2, 1>>}

RECURSIVE Pow(_, _)
Pow(b, e) == IF e = 0 THEN 1 ELSE b * Pow(b, e - 1)

\* int(dim / (octave_scale ** k)): the quotient, truncated (with a slip:
\* rounded to the nearest integer; then as written).  Exact arithmetic: the
\* rounding of the float division is not modelled.
scaled_dim_rounds(dim, scale, k) ==
    (2 * dim * Pow(scale[2], k) + Pow(scale[1], k)) \div (2 * Pow(scale[1], k))
scaled_dim(dim, scale, k) ==
    (dim * Pow(scale[2], k)) \div Pow(scale[1], k)

\* tuple([int(dim / (octave_scale ** i)) for dim in original_shape])
scaled_shape(shp, scale, k) ==
    [d \in DOMAIN shp |-> scaled_dim(shp[d], scale, k)]

\* range(1, num_octave) has an index after shape_i (with a slip: range(1,
\* num_octave + 1); then as written)
shape_loop_continues_inclusive == shape_i + 1 <= num_octave
shape_loop_continues == shape_i + 1 < num_octave

\* lst[::-1] (with a slip: the list left in building order; then as written)
reversed_forgotten(lst) == lst
reversed(lst) == [k \in DOMAIN lst |-> lst[Len(lst) + 1 - k]]

\* original_shape = img.shape[1:3]; successive_shapes = [original_shape]
ShapesInit ==
    \E h \in 1..MaxDim, w \in 1..MaxDim, n \in 0..MaxOctave,
       sc \in OctaveScales :
        /\ original_shape = <<h, w>>
        /\ num_octave = n
        /\ octave_scale = sc
        /\ successive_shapes = <<<<h, w>>>>
        /\ shape_i = 0
        /\ spc = "for"

\* for i in range(1, num_octave): shape = ...; successive_shapes.append(shape)
ShapesAppend ==
    /\ spc = "for"
    /\ shape_loop_continues
    /\ shape_i' = shape_i + 1
    /\ successive_shapes' =
         Append(successive_shapes,
                scaled_shape(original_shape, octave_scale, shape_i'))
    /\ UNCHANGED <<original_shape, num_octave, octave_scale, spc>>
    /\ UNCHANGED <<evars, avars, lvars>>

\* successive_shapes = successive_shapes[::-1], once the loop is exhausted
ShapesReverse ==
    /\ spc = "for"
    /\ ~shape_loop_continues
    /\ successive_shapes' = reversed(successive_shapes)
    /\ spc' = "done"
    /\ UNCHANGED <<original_shape, num_octave, octave_scale, shape_i>>
    /\ UNCHANGED <<evars, avars, lvars>>

ShapesNext == ShapesAppend \/ ShapesReverse

\* The cell that builds the list not run.
ShapesIdle ==
    /\ original_shape = <<>>
    /\ num_octave = 0
    /\ octave_scale = <<1, 1>>
    /\ successive_shapes = <<>>
    /\ shape_i = 0
    /\ spc = "idle"

\* ------------------------------------------------------ DeepDream: resize_img
\* Pixel values are whole multiples of 6, so that the weights of the linear
\* interpolation (halves and thirds at these sizes) leave whole numbers.
\* A float32 image of shape (1, h, w, 3) as preprocess_image returns it:
\* flat in every pixel, or different in every pixel.
Image(h, w, pattern) ==
    NdArray(<<1, h, w, 3>>, "float32",
            [p \in 1..(h * w * 3) |->
                IF pattern = "flat" THEN 6 ELSE 6 * ((5 * p) % 7)])

\* int(round(ii * jj)) for a dimension ii and a zoom factor jj given as a
\* fraction <<numerator, denominator>>
zoom_output_dim(ii, jj) == (2 * ii * jj[1] + jj[2]) \div (2 * jj[2])

\* Elements between two successive indices of axis k, in C order.
Stride(shp, k) == Prod(SubSeq(shp, k + 1, Len(shp)))

\* scipy.ndimage.zoom, order 1, along axis k alone: output index o samples
\* the input at o * (in - 1) / (out - 1) (at o when out = 1), interpolating
\* linearly between the two neighbours.  An interpolated value that is not
\* a whole number of units is rounded down to one, as a float is rounded to
\* the nearest it can hold.
ZoomAxis(a, k, out) ==
    LET in == a.shape[k]
        st == Stride(a.shape, k)
        den == IF out = 1 THEN 1 ELSE out - 1
        at(outer, q, inner) == a.data[outer * st * in + q * st + inner + 1]
        value(p) ==
            LET inner == (p - 1) % st
                o == ((p - 1) \div st) % out
                outer == (p - 1) \div (st * out)
                num == IF out = 1 THEN o ELSE o * (in - 1)
                q == num \div den
                r == num % den
            IN  IF r = 0
                THEN at(outer, q, inner)
                ELSE (at(outer, q, inner) * (den - r)
                        + at(outer, q + 1, inner) * r) \div den
        shp == [a.shape EXCEPT ![k] = out]
    IN  NdArray(shp, a.dtype, [p \in 1..Prod(shp) |-> value(p)])

\* scipy.ndimage.zoom(a, factors, order=1): every axis resampled to
\* int(round(dimension * factor)); the result is a new array.
RECURSIVE ZoomFrom(_, _, _)
ZoomFrom(a, factors, k) ==
    IF k > Len(a.shape)
    THEN a
    ELSE ZoomFrom(ZoomAxis(a, k, zoom_output_dim(a.shape[k], factors[k])),
                  factors, k + 1)
zoom(a, factors) == ZoomFrom(a, factors, 1)

\* resize_img(img, size) (with a slip: the two factors exchanged; then as
\* written)
resize_img_swaps_factors(a, size) ==
    zoom(np_copy(a),
         << <<1, 1>>, <<size[2], a.shape[2]>>, <<size[1], a.shape[3]>>,
            <<1, 1>> >>)
resize_img(a, size) ==
    zoom(np_copy(a),
         << <<1, 1>>, <<size[1], a.shape[2]>>, <<size[2], a.shape[3]>>,
            <<1, 1>> >>)

\* A new array: its reference, and the memory holding it.
NewRef == Len(heap) + 1
Alloc(a) == Append(heap, a)

\* The loop over the octaves not run.
LoopIdle ==
    /\ img = 0
    /\ original_img = 0
    /\ shrunk_original_img = 0
    /\ upscaled_shrunk_original_img = 0
    /\ same_size_original = 0
    /\ lost_detail = 0
    /\ shape = <<>>
    /\ oct_k = 0
    /\ opc = "idle"
    /\ base_data = <<>>
    /\ visited = <<>>
    /\ asc_data = <<>>
    /\ n_reinjected = 0
    /\ stages = <<>>
    /\ trips = {}
    /\ n_saved = 0
    /\ n_evals_done = 0

\* One statement of the loop taken alone, before it is run:
\* same_size_original = resize_img(original_img, shape), for an image and a
\* shape of any sizes.
ResizeInit ==
    \E h \in 1..MaxImageDim, w \in 1..MaxImageDim,
       pattern \in {"flat", "varied"},
       sh \in 1..MaxImageDim, sw \in 1..MaxImageDim :
        /\ heap = <<Image(h, w, pattern)>>
        /\ original_img = 1
        /\ shape = <<sh, sw>>
        /\ base_data = Image(h, w, pattern).data
        /\ opc = "same_size"
        /\ img = 0
        /\ shrunk_original_img = 0
        /\ upscaled_shrunk_original_img = 0
        /\ same_size_original = 0
        /\ lost_detail = 0
        /\ oct_k = 0
        /\ visited = <<>>
        /\ asc_data = <<>>
        /\ n_reinjected = 0
        /\ stages = <<>>
        /\ trips = {}
        /\ n_saved = 0
        /\ n_evals_done = 0

\* ------------------------------------------------ DeepDream: octave loop
\* a - b, element by element: a new array (with a slip: the operands
\* exchanged; then as written)
np_subtract_swapped(a, b) ==
    NdArray(a.shape, a.dtype, [k \in DOMAIN a.data |-> b.data[k] - a.data[k]])
np_subtract(a, b) ==
    NdArray(a.shape, a.dtype, [k \in DOMAIN a.data |-> a.data[k] - b.data[k]])

\* Sizes of the base image (higher than one pixel, and not square), numbers
\* of iterations and values of max_loss of the runs over the octaves.
BaseShapes == {<<MaxImageDim - 1, MaxImageDim>>}
OctaveIterations == {0, 1, 2}
OctaveMaxLosses == {None, Float(0)}

\* Every shape of the list keeps a height and a width of at least one pixel.
ShapesPositive(shp, scale, n) ==
    \A k \in 1..(n - 1) : \A d \in DOMAIN shp : scaled_dim(shp[d], scale, k) >= 1

\* The state in which the cells of the driver start: img is the image
\* preprocess_image loaded, the hyperparameters are set, nothing else ran.
\* iterations, step and max_loss are the globals of these names; the call in
\* the loop passes each to the parameter of gradient_ascent of the same name.
OctavesInit ==
    \E bs \in BaseShapes, n \in 0..MaxOctave, sc \in OctaveScales,
       it \in OctaveIterations, m \in OctaveMaxLosses :
        /\ ShapesPositive(bs, sc, n)
        /\ heap = <<Image(bs[1], bs[2], "varied")>>
        /\ img = 1
        /\ base_data = heap[img].data
        /\ original_shape = SubSeq(heap[img].shape, 2, 3)
        /\ num_octave = n
        /\ octave_scale = sc
        /\ successive_shapes = <<original_shape>>
        /\ shape_i = 0
        /\ spc = "for"
        /\ iterations = it
        /\ step = 1
        /\ max_loss = m
        /\ opc = "copy"
        /\ original_img = 0
        /\ shrunk_original_img = 0
        /\ upscaled_shrunk_original_img = 0
        /\ same_size_original = 0
        /\ lost_detail = 0
        /\ shape = <<>>
        /\ oct_k = 0
        /\ visited = <<>>
        /\ asc_data = <<>>
        /\ n_reinjected = 0
        /\ stages = <<>>
        /\ trips = {}
        /\ n_saved = 0
        /\ n_evals_done = 0
        /\ arg_x = 0
        /\ x = 0
        /\ i = -1
        /\ loss_value = None
        /\ grad_values = None
        /\ pc = "idle"
        /\ ret = 0
        /\ input_data = <<>>
        /\ n_evals = 0
        /\ n_updates = 0
        /\ eval_data = <<>>
        /\ first_loss = None
        /\ applied_loss = None
        /\ crossed = FALSE
        /\ cross_data = <<>>
        /\ cross_updates = 0
        /\ cross_evals = 0
        /\ grad_sum = <<>>

\* What a statement of the loop leaves alone besides the loop's own names.
AscentUnchanged ==
    UNCHANGED <<x, iterations, step, max_loss, i, loss_value, grad_values,
                pc, ret, arg_x, input_data, n_evals, n_updates, eval_data,
                first_loss, applied_loss, crossed, cross_data, cross_updates,
                cross_evals, grad_sum>>

\* original_img = np.copy(img), once successive_shapes is built
OctaveCopy ==
    /\ opc = "copy"
    /\ spc = "done"
    /\ heap' = Alloc(np_copy(heap[img]))
    /\ original_img' = NewRef
    /\ opc' = "shrink"
    /\ UNCHANGED <<img, shrunk_original_img, upscaled_shrunk_original_img,
                   same_size_original, lost_detail, shape, oct_k, base_data,
                   visited, asc_data, n_reinjected, stages, trips, n_saved,
                   n_evals_done>>
    /\ AscentUnchanged
    /\ UNCHANGED <<evars, svars>>

\* The statement with a slip: successive_shapes[1] for successive_shapes[0]
\* (the last shape when the list has one element only).
OctaveShrink_to_second ==
    /\ opc = "shrink"
    /\ heap' = Alloc(resize_img(heap[img],
                                successive_shapes[IF Len(successive_shapes) > 1
                                                  THEN 2 ELSE 1]))
    /\ shrunk_original_img' = NewRef
    /\ opc' = "for"
    /\ UNCHANGED <<img, original_img, upscaled_shrunk_original_img,
                   same_size_original, lost_detail, shape, oct_k, base_data,
                   visited, asc_data, n_reinjected, stages, trips, n_saved,
                   n_evals_done>>
    /\ AscentUnchanged
    /\ UNCHANGED <<evars, svars>>

\* shrunk_original_img = resize_img(img, successive_shapes[0])
OctaveShrink ==
    /\ opc = "shrink"
    /\ heap' = Alloc(resize_img(heap[img], successive_shapes[1]))
    /\ shrunk_original_img' = NewRef
    /\ opc' = "for"
    /\ UNCHANGED <<img, original_img, upscaled_shrunk_original_img,
                   same_size_original, lost_detail, shape, oct_k, base_data,
                   visited, asc_data, n_reinjected, stages, trips, n_saved,
                   n_evals_done>>
    /\ AscentUnchanged
    /\ UNCHANGED <<evars, svars>>

\* The loop header with a slip: the first shape of a longer list is skipped.
OctaveFor_skips_smallest ==
    /\ opc = "for"
    /\ LET next == IF oct_k = 0 /\ Len(successive_shapes) > 1
                   THEN 2 ELSE oct_k + 1
       IN  IF next <= Len(successive_shapes)
           THEN /\ oct_k' = next
                /\ shape' = successive_shapes[next]
                /\ visited' = Append(visited, successive_shapes[next])
                /\ stages' = <<>>
                /\ opc' = "resize"
           ELSE /\ opc' = "final_save"
                /\ UNCHANGED <<oct_k, shape, visited, stages>>
    /\ UNCHANGED <<heap, img, original_img, shrunk_original_img,
                   upscaled_shrunk_original_img, same_size_original,
                   lost_detail, base_data, asc_data, n_reinjected, trips,
                   n_saved,
                   n_evals_done>>
    /\ AscentUnchanged
    /\ UNCHANGED <<evars, svars>>

\* for shape in successive_shapes:   (then print('Processing image shape', ...))
OctaveFor ==
    /\ opc = "for"
    /\ IF oct_k < Len(successive_shapes)
       THEN /\ oct_k' = oct_k + 1
            /\ shape' = successive_shapes[oct_k + 1]
            /\ visited' = Append(visited, successive_shapes[oct_k + 1])
            /\ stages' = <<>>
            /\ opc' = "resize"
       ELSE /\ opc' = "final_save"
            /\ UNCHANGED <<oct_k, shape, visited, stages>>
    /\ UNCHANGED <<heap, img, original_img, shrunk_original_img,
                   upscaled_shrunk_original_img, same_size_original,
                   lost_detail, base_data, asc_data, n_reinjected, trips,
                   n_saved,
                   n_evals_done>>
    /\ AscentUnchanged
    /\ UNCHANGED <<evars, svars>>

\* img = resize_img(img, shape)
OctaveResize ==
    /\ opc = "resize"
    /\ heap' = Alloc(resize_img(heap[img], shape))
    /\ img' = NewRef
    /\ stages' = Append(stages, "resample")
    /\ opc' = "ascend"
    /\ UNCHANGED <<original_img, shrunk_original_img,
                   upscaled_shrunk_original_img, same_size_original,
                   lost_detail, shape, oct_k, base_data, visited, asc_data,
                   n_reinjected, trips, n_saved,
                   n_evals_done>>
    /\ AscentUnchanged
    /\ UNCHANGED <<evars, svars>>

\* The call with a slip: gradient_ascent(original_img, ...).
OctaveCall_on_original ==
    /\ opc = "ascend"
    /\ x' = original_img
    /\ arg_x' = original_img
    /\ i' = -1
    /\ loss_value' = None
    /\ grad_values' = None
    /\ pc' = "for"
    /\ ret' = 0
    /\ input_data' = heap[original_img].data
    /\ n_evals' = 0
    /\ n_updates' = 0
    /\ eval_data' = <<>>
    /\ first_loss' = None
    /\ applied_loss' = None
    /\ crossed' = FALSE
    /\ cross_data' = <<>>
    /\ cross_updates' = 0
    /\ cross_evals' = 0
    /\ grad_sum' = [k \in DOMAIN heap[original_img].data |-> 0]
    /\ opc' = "in_ascent"
    /\ UNCHANGED <<heap, iterations, step, max_loss>>
    /\ UNCHANGED <<img, original_img, shrunk_original_img,
                   upscaled_shrunk_original_img, same_size_original,
                   lost_detail, shape, oct_k, base_data, visited, asc_data,
                   n_reinjected, stages, trips, n_saved,
                   n_evals_done>>
    /\ UNCHANGED <<evars, svars>>

\* gradient_ascent(img, iterations=iterations, step=step, max_loss=max_loss):
\* the call binds x to the array img names and enters the body.
OctaveCall ==
    /\ opc = "ascend"
    /\ x' = img
    /\ arg_x' = img
    /\ i' = -1
    /\ loss_value' = None
    /\ grad_values' = None
    /\ pc' = "for"
    /\ ret' = 0
    /\ input_data' = heap[img].data
    /\ n_evals' = 0
    /\ n_updates' = 0
    /\ eval_data' = <<>>
    /\ first_loss' = None
    /\ applied_loss' = None
    /\ crossed' = FALSE
    /\ cross_data' = <<>>
    /\ cross_updates' = 0
    /\ cross_evals' = 0
    /\ grad_sum' = [k \in DOMAIN heap[img].data |-> 0]
    /\ opc' = "in_ascent"
    /\ UNCHANGED <<heap, iterations, step, max_loss>>
    /\ UNCHANGED <<img, original_img, shrunk_original_img,
                   upscaled_shrunk_original_img, same_size_original,
                   lost_detail, shape, oct_k, base_data, visited, asc_data,
                   n_reinjected, stages, trips, n_saved,
                   n_evals_done>>
    /\ UNCHANGED <<evars, svars>>

\* img = <what gradient_ascent returned>
OctaveReturn ==
    /\ opc = "in_ascent"
    /\ n_evals_done' = n_evals_done + n_evals
    /\ pc = "returned"
    /\ img' = ret
    /\ asc_data' = heap[ret].data
    /\ stages' = Append(stages, "ascend")
    /\ trips' = IF crossed THEN trips \cup {oct_k} ELSE trips
    /\ pc' = "idle"
    /\ opc' = "upscale"
    /\ UNCHANGED <<heap, x, iterations, step, max_loss, i, loss_value,
                   grad_values, ret, arg_x, input_data, n_evals, n_updates,
                   eval_data, first_loss, applied_loss, crossed, cross_data,
                   cross_updates, cross_evals, grad_sum>>
    /\ UNCHANGED <<original_img, shrunk_original_img,
                   upscaled_shrunk_original_img, same_size_original,
                   lost_detail, shape, oct_k, base_data, visited,
                   n_reinjected, n_saved>>
    /\ UNCHANGED <<evars, svars>>

\* The exception with a slip: caught around the call, the loop going on with
\* the array as the failed call left it.
OctaveRaise_swallows ==
    /\ opc = "in_ascent"
    /\ n_evals_done' = n_evals_done + n_evals
    /\ pc = "raised"
    /\ asc_data' = heap[img].data
    /\ stages' = Append(stages, "ascend")
    /\ pc' = "idle"
    /\ opc' = "upscale"
    /\ UNCHANGED <<heap, x, iterations, step, max_loss, i, loss_value,
                   grad_values, ret, arg_x, input_data, n_evals, n_updates,
                   eval_data, first_loss, applied_loss, crossed, cross_data,
                   cross_updates, cross_evals, grad_sum>>
    /\ UNCHANGED <<img, original_img, shrunk_original_img,
                   upscaled_shrunk_original_img, same_size_original,
                   lost_detail, shape, oct_k, base_data, visited,
                   n_reinjected, trips, n_saved>>
    /\ UNCHANGED <<evars, svars>>

\* The exception of the external model leaves gradient_ascent, which has no
\* try, and then the loop and the cell, which have none either: the run is
\* over.
OctaveRaise ==
    /\ opc = "in_ascent"
    /\ n_evals_done' = n_evals_done + n_evals
    /\ pc = "raised"
    /\ opc' = "raised"
    /\ UNCHANGED <<heap, img, original_img, shrunk_original_img,
                   upscaled_shrunk_original_img, same_size_original,
                   lost_detail, shape, oct_k, base_data, visited, asc_data,
                   n_reinjected, stages, trips, n_saved>>
    /\ AscentUnchanged
    /\ UNCHANGED <<evars, svars>>

\* upscaled_shrunk_original_img = resize_img(shrunk_original_img, shape)
OctaveUpscale ==
    /\ opc = "upscale"
    /\ heap' = Alloc(resize_img(heap[shrunk_original_img], shape))
    /\ upscaled_shrunk_original_img' = NewRef
    /\ opc' = "same_size"
    /\ UNCHANGED <<img, original_img, shrunk_original_img, same_size_original,
                   lost_detail, shape, oct_k, base_data, visited, asc_data,
                   n_reinjected, stages, trips, n_saved,
                   n_evals_done>>
    /\ AscentUnchanged
    /\ UNCHANGED <<evars, svars>>

\* The statement with a slip: the dream resized in place of the original.
OctaveSameSize_of_dream ==
    /\ opc = "same_size"
    /\ heap' = Alloc(resize_img(heap[img], shape))
    /\ same_size_original' = NewRef
    /\ opc' = "lost_detail"
    /\ UNCHANGED <<img, original_img, shrunk_original_img,
                   upscaled_shrunk_original_img, lost_detail, shape, oct_k,
                   base_data, visited, asc_data, n_reinjected, stages, trips,
                   n_saved,
                   n_evals_done>>
    /\ AscentUnchanged
    /\ UNCHANGED <<evars, svars>>

\* same_size_original = resize_img(original_img, shape)
OctaveSameSize ==
    /\ opc = "same_size"
    /\ heap' = Alloc(resize_img(heap[original_img], shape))
    /\ same_size_original' = NewRef
    /\ opc' = "lost_detail"
    /\ UNCHANGED <<img, original_img, shrunk_original_img,
                   upscaled_shrunk_original_img, lost_detail, shape, oct_k,
                   base_data, visited, asc_data, n_reinjected, stages, trips,
                   n_saved,
                   n_evals_done>>
    /\ AscentUnchanged
    /\ UNCHANGED <<evars, svars>>

\* lost_detail = same_size_original - upscaled_shrunk_original_img
OctaveLostDetail ==
    /\ opc = "lost_detail"
    /\ heap' = Alloc(np_subtract(heap[same_size_original],
                                 heap[upscaled_shrunk_original_img]))
    /\ lost_detail' = NewRef
    /\ opc' = "reinject"
    /\ UNCHANGED <<img, original_img, shrunk_original_img,
                   upscaled_shrunk_original_img, same_size_original, shape,
                   oct_k, base_data, visited, asc_data, n_reinjected, stages,
                   trips, n_saved,
                   n_evals_done>>
    /\ AscentUnchanged
    /\ UNCHANGED <<evars, svars>>

\* img += lost_detail   (in place: the array img names changes)
OctaveReinject ==
    /\ opc = "reinject"
    /\ heap' = [heap EXCEPT ![img] = iadd(@, 1, heap[lost_detail])]
    /\ n_reinjected' = n_reinjected + 1
    /\ stages' = Append(stages, "reinject")
    /\ opc' = "shrunk"
    /\ UNCHANGED <<img, original_img, shrunk_original_img,
                   upscaled_shrunk_original_img, same_size_original,
                   lost_detail, shape, oct_k, base_data, visited, asc_data,
                   trips, n_saved,
                   n_evals_done>>
    /\ AscentUnchanged
    /\ UNCHANGED <<evars, svars>>

\* The statement with a slip: the dream resized in place of the original.
OctaveShrunk_of_dream ==
    /\ opc = "shrunk"
    /\ heap' = Alloc(resize_img(heap[img], shape))
    /\ shrunk_original_img' = NewRef
    /\ opc' = "save"
    /\ UNCHANGED <<img, original_img, upscaled_shrunk_original_img,
                   same_size_original, lost_detail, shape, oct_k, base_data,
                   visited, asc_data, n_reinjected, stages, trips, n_saved,
                   n_evals_done>>
    /\ AscentUnchanged
    /\ UNCHANGED <<evars, svars>>

\* shrunk_original_img = resize_img(original_img, shape)
OctaveShrunk ==
    /\ opc = "shrunk"
    /\ heap' = Alloc(resize_img(heap[original_img], shape))
    /\ shrunk_original_img' = NewRef
    /\ opc' = "save"
    /\ UNCHANGED <<img, original_img, upscaled_shrunk_original_img,
                   same_size_original, lost_detail, shape, oct_k, base_data,
                   visited, asc_data, n_reinjected, stages, trips, n_saved,
                   n_evals_done>>
    /\ AscentUnchanged
    /\ UNCHANGED <<evars, svars>>

\* save_img(img, fname='dream_at_scale_' + str(shape) + '.png'): the file is
\* written from a copy, img is left as it is
OctaveSave ==
    /\ opc = "save"
    /\ n_saved' = n_saved + 1
    /\ opc' = "for"
    /\ UNCHANGED <<heap, img, original_img, shrunk_original_img,
                   upscaled_shrunk_original_img, same_size_original,
                   lost_detail, shape, oct_k, base_data, visited, asc_data,
                   n_reinjected, stages, trips, n_evals_done>>
    /\ AscentUnchanged
    /\ UNCHANGED <<evars, svars>>

\* save_img(img, fname='final_dream.png'), after the loop
OctaveFinalSave ==
    /\ opc = "final_save"
    /\ n_saved' = n_saved + 1
    /\ opc' = "done"
    /\ UNCHANGED <<heap, img, original_img, shrunk_original_img,
                   upscaled_shrunk_original_img, same_size_original,
                   lost_detail, shape, oct_k, base_data, visited, asc_data,
                   n_reinjected, stages, trips, n_evals_done>>
    /\ AscentUnchanged
    /\ UNCHANGED <<evars, svars>>

OctavesNext ==
    \/ OctaveCopy
    \/ OctaveShrink
    \/ OctaveFor
    \/ OctaveResize
    \/ OctaveCall
    \/ OctaveReturn
    \/ OctaveRaise
    \/ OctaveUpscale
    \/ OctaveSameSize
    \/ OctaveLostDetail
    \/ OctaveReinject
    \/ OctaveShrunk
    \/ OctaveSave
    \/ OctaveFinalSave

\* ------------------------------------------------------------ specifications
\* gradient_ascent not called: the state the Evaluator runs beside.
AscentLocalsIdle ==
    /\ arg_x = 0
    /\ x = 0
    /\ iterations = 0
    /\ step = 0
    /\ max_loss = None
    /\ i = -1
    /\ loss_value = None
    /\ grad_values = None
    /\ pc = "idle"
    /\ ret = 0
    /\ input_data = <<>>
    /\ n_evals = 0
    /\ n_updates = 0
    /\ eval_data = <<>>
    /\ first_loss = None
    /\ applied_loss = None
    /\ crossed = FALSE
    /\ cross_data = <<>>
    /\ cross_updates = 0
    /\ cross_evals = 0
    /\ grad_sum = <<>>

AscentIdle == heap = <<>> /\ AscentLocalsIdle

\* Calls of the Evaluator's two methods in any order.
InitEvaluator == EvaluatorInit /\ AscentIdle /\ ShapesIdle /\ LoopIdle
SpecEvaluator == InitEvaluator /\ [][EvaluatorNext]_vars

\* One call of gradient_ascent, statement by statement.
InitAscent == EvaluatorInit /\ AscentInit /\ ShapesIdle /\ LoopIdle
SpecAscent == InitAscent /\ [][AscentNext]_vars

\* One call of resize_img on an image of any size, for any target size.
InitResize == EvaluatorInit /\ AscentLocalsIdle /\ ShapesIdle /\ ResizeInit
SpecResize == InitResize /\ [][OctaveSameSize]_vars

\* The cell that builds successive_shapes, iteration by iteration.
InitShapes == EvaluatorInit /\ AscentIdle /\ ShapesInit /\ LoopIdle
SpecShapes == InitShapes /\ [][ShapesNext]_vars

\* The driver: the list of shapes built, then the loop over the octaves,
\* statement by statement, gradient_ascent running inside each octave.
InitOctaves == EvaluatorInit /\ OctavesInit
DriverNext == ShapesNext \/ AscentNext \/ OctavesNext
SpecOctaves == InitOctaves /\ [][DriverNext]_vars

\* ------------------------------------------------------- Evaluator: claims
\* A step that is a call of Evaluator.loss / Evaluator.grads.
IsLossCall == n_calls' = n_calls + 1 /\ e_call'.op = "loss"
IsGradsCall == n_calls' = n_calls + 1 /\ e_call'.op = "grads"
\* A (loss, gradient) pair is cached and not yet consumed.
Pending == self_loss_value # None

\* C1: a loss call made while a computed pair is still pending (so also a
\* loss call that directly follows a loss call that returned a loss) fails
\* with AssertionError, returns no loss and leaves the Evaluator as it was.
C1_LossWhilePendingFails ==
    [][(IsLossCall /\ (Pending \/ (e_call.op = "loss" /\ e_call.status = "ok")))
          => /\ e_call'.status = "AssertionError"
             /\ e_call'.value = None
             /\ UNCHANGED <<self_loss_value, self_grad_values>>]_vars

\* Two loss calls in a row: the first returned a loss, the second was refused.
C1_Witness ==
    /\ n_calls = 2
    /\ n_pairs = 1
    /\ e_call.op = "loss"
    /\ e_call.status = "AssertionError"
    /\ Pending

\* C2: a grads call made when no pair is pending fails with AssertionError:
\* the first call on a fresh Evaluator, and a grads call that directly
\* follows another grads call.
C2_GradsWithoutPendingFails ==
    [][(IsGradsCall /\ (~Pending \/ n_calls = 0 \/ e_call.op = "grads"))
          => /\ e_call'.status = "AssertionError"
             /\ e_call'.value = None
             /\ UNCHANGED <<self_loss_value, self_grad_values>>]_vars

\* grads was the very first call and was refused, and so was a second grads.
C2_Witness ==
    /\ n_calls = 2
    /\ n_loss_accepted = 0
    /\ n_grads_accepted = 0
    /\ e_call.op = "grads"
    /\ e_call.status = "AssertionError"

\* C3: the external model has been evaluated exactly once per accepted loss
\* call; grads calls add no evaluation.
C3_OneEvaluationPerAcceptedLoss == n_fetch = n_loss_accepted

\* Losses and gradients were both fetched, some calls were refused.
C3_Witness ==
    /\ n_loss_accepted = 2
    /\ n_grads_accepted = 1
    /\ n_calls = 4
    /\ n_fetch = 2

\* C4: an accepted grads call returns the gradient of the evaluation made by
\* the last accepted loss call, as a flat float64 vector, and empties the
\* cache; every computed pair is handed out at most once and all but a
\* pending one have been handed out.
C4_GradsReturnsPendingOnce ==
    /\ [](n_pairs = n_grads_accepted + (IF Pending THEN 1 ELSE 0))
    /\ [][(IsGradsCall /\ e_call'.status = "ok")
            => /\ Pending
               /\ e_call'.value.data = pending_outs.grads.data
               /\ e_call'.value.dtype = "float64"
               /\ e_call'.value.shape = <<Len(pending_outs.grads.data)>>
               /\ self_loss_value' = None
               /\ self_grad_values' = None]_vars

\* A second pair was computed and handed out after the first one.
C4_Witness ==
    /\ n_pairs = 2
    /\ n_grads_accepted = 2
    /\ e_call.op = "grads"
    /\ e_call.status = "ok"
    /\ ~Pending

\* C5 as claimed: an accepted grads call has the candidate of the loss call
\* whose gradient it is served.
C5_GradsOnlyForSameCandidate ==
    (e_call.op = "grads" /\ e_call.status = "ok") => e_call.arg = pending_x

\* C5 amended: grads does not look at its candidate.  Whenever a pair is
\* pending, a grads call is accepted and served the cached gradient, whatever
\* its candidate; only the alternation of loss and grads is enforced.
C5_GradsIgnoresCandidate ==
    [][(IsGradsCall /\ Pending)
          => /\ e_call'.status = "ok"
             /\ e_call'.value.data = pending_outs.grads.data]_vars

\* grads was accepted with a candidate other than the one the loss was
\* computed for, and returned that other candidate's gradient.
C5_Witness ==
    /\ e_call.op = "grads"
    /\ e_call.status = "ok"
    /\ e_call.arg # pending_x
    /\ e_call.value.data = pending_outs.grads.data

\* -------------------------------------------------- gradient_ascent: claims
\* gradient_ascent has returned.
Returned == pc = "returned"
\* The gradient of the last evaluation is not zero: applying it would show.
GradientNonZero ==
    grad_values # None /\ \E k \in DOMAIN grad_values.data : grad_values.data[k] # 0

\* C6: from the first evaluation whose loss exceeds max_loss on, the loop
\* only breaks and returns: the array keeps the elements it had at that
\* evaluation, no update is applied and nothing is evaluated any more, and
\* the array returned holds those elements.
C6_StopsBeforeCrossingUpdate ==
    crossed =>
        /\ pc \in {"check", "return", "returned"}
        /\ heap[x].data = cross_data
        /\ n_updates = cross_updates
        /\ n_evals = cross_evals
        /\ (Returned => heap[ret].data = cross_data)

\* The loss crossed max_loss after an update had been applied and with
\* iterations left; the gradient of the crossing step was not zero.
C6_Witness ==
    /\ Returned
    /\ crossed
    /\ cross_updates >= 1
    /\ i + 1 < iterations
    /\ GradientNonZero

\* C7: when the loss of the first evaluation exceeds max_loss, gradient_ascent
\* returns the array it was given with every element as at the call, after
\* one evaluation and no update.
C7_FirstLossOverReturnsInput ==
    (Returned /\ max_loss # None /\ first_loss # None
        /\ first_loss.v > max_loss.v)
      => /\ ret = arg_x
         /\ heap[ret].data = input_data
         /\ n_evals = 1
         /\ n_updates = 0

\* The first loss was over max_loss, with iterations left and a gradient to
\* apply.
C7_Witness ==
    /\ Returned
    /\ max_loss # None
    /\ first_loss # None
    /\ first_loss.v > max_loss.v
    /\ iterations >= 2
    /\ GradientNonZero

\* C8 as claimed: with iterations >= 1 the update of iteration 0 is always
\* applied.
C8_FirstUpdateAlwaysApplied ==
    (Returned /\ iterations >= 1) => n_updates >= 1

\* C8 amended: with iterations >= 1 the evaluation of iteration 0 is always
\* made, and its update is applied exactly when max_loss is None or the
\* first loss does not exceed max_loss: the check comes before the update.
C8_FirstEvaluationAlwaysMade ==
    (pc \in {"return", "returned"} /\ iterations >= 1)
      => /\ n_evals >= 1
         /\ first_loss # None
         /\ (n_updates >= 1 <=> (max_loss = None \/ first_loss.v <= max_loss.v))

\* The first loss was exactly max_loss and the first update was applied.
C8_Witness ==
    /\ Returned
    /\ iterations >= 1
    /\ max_loss # None
    /\ first_loss = max_loss
    /\ n_updates >= 1
    /\ heap[ret].data # input_data

\* C9 as claimed: with max_loss set, the loss of the returned array (known
\* when the array returned is the one last evaluated) does not exceed
\* max_loss.
C9_ReturnedWithinMaxLoss ==
    (Returned /\ max_loss # None /\ n_evals >= 1
        /\ heap[ret].data = eval_data)
      => loss_value.v <= max_loss.v

\* C9 amended: with max_loss set, every update applied was computed at an
\* array whose loss did not exceed max_loss; when the guard has tripped, the
\* array returned is the one whose loss was found above max_loss.
C9_UpdatesWithinMaxLoss ==
    max_loss # None =>
        /\ (applied_loss # None => applied_loss.v <= max_loss.v)
        /\ ((Returned /\ crossed)
              => /\ heap[ret].data = eval_data
                 /\ loss_value.v > max_loss.v)

\* Updates were applied under max_loss, then the guard tripped.
C9_Witness ==
    /\ Returned
    /\ max_loss # None
    /\ n_updates >= 2
    /\ crossed

\* C10: with iterations = 0 gradient_ascent evaluates nothing, updates
\* nothing, raises nothing and returns the array it was given, unchanged.
C10_ZeroIterationsNoOp ==
    iterations = 0 =>
        /\ pc \in {"for", "return", "returned"}
        /\ n_evals = 0
        /\ n_updates = 0
        /\ heap[arg_x].data = input_data
        /\ (Returned => ret = arg_x)

\* Returned from a call with iterations = 0 and max_loss set.
C10_Witness ==
    /\ Returned
    /\ iterations = 0
    /\ max_loss # None

\* C11: every update adds step * grad_values to x element by element, the
\* gradient being the one evaluated at x as the previous update left it; so
\* after any number of updates x holds the input plus step times the sum of
\* the gradients applied, one per update.
C11_UpdateAddsStepTimesGradient ==
    /\ pc # "idle" =>
        \A k \in DOMAIN input_data :
            heap[x].data[k] = input_data[k] + step * grad_sum[k]
    /\ pc = "update" => eval_data = heap[x].data

\* Three updates were applied, with gradients that were not all the same.
C11_Witness ==
    /\ Returned
    /\ n_updates = 3
    /\ \E k \in DOMAIN grad_sum : grad_sum[k] # grad_sum[1]
    /\ heap[ret].data # input_data

\* The scenario of C12, the array in tenths and the gradient in units, so
\* that a step size of 0.1 is the whole number 1: x is 1.0 everywhere, the
\* one evaluation returned the gradient 2x, and its update was applied.
OnesScenario(s) ==
    /\ Returned
    /\ iterations = 1
    /\ step = s
    /\ n_updates = 1
    /\ \A k \in DOMAIN input_data : input_data[k] = 10
    /\ \A k \in DOMAIN input_data : grad_values.data[k] = 2

\* C12 as claimed: with step size 0.1 the result is 0.8 in every element.
C12_DescentGivesPointEight ==
    OnesScenario(1) => \A k \in DOMAIN input_data : heap[ret].data[k] = 8

\* C12 amended: gradient_ascent has no direction setting, it always adds
\* step * gradient: with step size 0.1 the result is 1.2 in every element,
\* and 0.8 is the result of the negative step size -0.1.
C12_DirectionIsSignOfStep ==
    \A s \in {-1, 1} :
        OnesScenario(s) =>
            \A k \in DOMAIN input_data : heap[ret].data[k] = 10 + s * 2

\* The descent of the scenario, obtained with the step size -0.1.
C12_Witness ==
    /\ OnesScenario(-1)
    /\ \A k \in DOMAIN input_data : heap[ret].data[k] = 8

\* ------------------------------------------------ successive_shapes: claims
\* The list of shapes is built and reversed.
ShapesDone == spc = "done"
\* Each shape of the list is at least / more than the one before it, in both
\* dimensions.
NonDecreasing(lst) ==
    \A k \in 1..(Len(lst) - 1) : \A d \in 1..2 : lst[k][d] <= lst[k + 1][d]
StrictlyIncreasing(lst) ==
    \A k \in 1..(Len(lst) - 1) : \A d \in 1..2 : lst[k][d] < lst[k + 1][d]

\* C14 as claimed: three octaves of an 8x8 base at scale 1.4 are processed as
\* (4,4), (6,6), (8,8).
C14_ShapesFourSixEight ==
    (ShapesDone /\ original_shape = <<8, 8>> /\ octave_scale = <<7, 5>>
        /\ num_octave = 3)
      => successive_shapes = << <<4, 4>>, <<6, 6>>, <<8, 8>> >>

\* C14 amended: the quotients are truncated, int(8 / 1.4) = 5 and
\* int(8 / 1.96) = 4: the sequence is (4,4), (5,5), (8,8).
C14_ShapesFourFiveEight ==
    (ShapesDone /\ original_shape = <<8, 8>> /\ octave_scale = <<7, 5>>
        /\ num_octave = 3)
      => successive_shapes = << <<4, 4>>, <<5, 5>>, <<8, 8>> >>

\* The list of the 8x8 base at scale 1.4 with three octaves is built.
C14_Witness ==
    /\ ShapesDone
    /\ original_shape = <<8, 8>>
    /\ octave_scale = <<7, 5>>
    /\ num_octave = 3
    /\ Len(successive_shapes) = 3

\* C15 as claimed: the shapes are strictly increasing in processing order.
C15_ShapesStrictlyIncrease ==
    ShapesDone => StrictlyIncreasing(successive_shapes)

\* C15 amended: for octave_scale >= 1 the shapes never decrease in
\* processing order, and they end with the original shape; consecutive
\* shapes can be equal (octave_scale = 1, or truncation to the same integer).
C15_ShapesNeverDecrease ==
    (ShapesDone /\ octave_scale[1] >= octave_scale[2])
      => /\ NonDecreasing(successive_shapes)
         /\ successive_shapes[Len(successive_shapes)] = original_shape

\* Three shapes at a scale above 1, two of them equal by truncation.
C15_Witness ==
    /\ ShapesDone
    /\ Len(successive_shapes) = 3
    /\ octave_scale = <<5, 4>>
    /\ successive_shapes[1] # successive_shapes[3]
    /\ \E k \in 1..2 : successive_shapes[k] = successive_shapes[k + 1]

\* ------------------------------------------------------- resize_img: claims
\* C18: resize_img of an image to its own height and width returns a new
\* array with the shape, the dtype and every element of the image; whatever
\* the target size, the batch and channel axes keep their lengths.
C18_ResizeToOwnShapeIsIdentity ==
    opc = "lost_detail" =>
        /\ heap[same_size_original].shape
             = <<heap[original_img].shape[1], shape[1], shape[2],
                 heap[original_img].shape[4]>>
        /\ (shape = SubSeq(heap[original_img].shape, 2, 3)
              => heap[same_size_original] = heap[original_img])

\* An image that is not square and differs in every pixel was resized to
\* its own shape.
C18_Witness ==
    /\ opc = "lost_detail"
    /\ shape = SubSeq(heap[original_img].shape, 2, 3)
    /\ shape[1] # shape[2]
    /\ shape[1] > 1
    /\ shape[2] > 1
    /\ \E p \in DOMAIN base_data : base_data[p] # base_data[1]
    /\ same_size_original # original_img

\* Every interpolated value of a resize is a whole number: no remainder is
\* dropped by the divisions of ZoomAxis at these sizes.
RECURSIVE ZoomExactFrom(_, _, _)
ZoomExactFrom(a, size, k) ==
    IF k > 3
    THEN TRUE
    ELSE LET out == size[k - 1]
             in == a.shape[k]
             st == Stride(a.shape, k)
             den == IF out = 1 THEN 1 ELSE out - 1
         IN  /\ \A p \in 1..((Prod(a.shape) \div in) * out) :
                    LET inner == (p - 1) % st
                        o == ((p - 1) \div st) % out
                        outer == (p - 1) \div (st * out)
                        num == IF out = 1 THEN o ELSE o * (in - 1)
                        q == num \div den
                        r == num % den
                    IN  r # 0 =>
                          (a.data[outer * st * in + q * st + inner + 1] * (den - r)
                             + a.data[outer * st * in + (q + 1) * st + inner + 1] * r)
                            % den = 0
             /\ ZoomExactFrom(ZoomAxis(a, k, out), size, k + 1)
ResizeIsExact ==
    opc = "same_size" => ZoomExactFrom(heap[original_img], shape, 2)

\* ------------------------------------------------------- octave loop: claims
\* The run over the octaves went through its last statement.
OctavesDone == opc = "done"

\* The array a has the height and the width shp, one image and 3 channels.
HasResolution(a, shp) == a.shape = <<1, shp[1], shp[2], 3>>

\* C13 as stated: for every num_octave >= 0 the list holds exactly num_octave
\* shapes, the run processes them in the reversed order, the last one is the
\* original shape and the final image has the original resolution.
C13_ComputesNumOctaveShapes ==
    OctavesDone =>
        /\ Len(successive_shapes) = num_octave
        /\ visited = successive_shapes
        /\ visited[Len(visited)] = original_shape
        /\ HasResolution(heap[img], original_shape)

\* C13 as amended: the list holds num_octave shapes when num_octave >= 1 and
\* one shape, the original, when num_octave = 0; once reversed it holds the
\* original shape divided by octave_scale ** (Len - k) at position k, so the
\* original shape comes last; a run that completes has processed the shapes
\* in this order, none smaller than the one before, and its final image has
\* the original resolution.
C13_ComputesAtLeastOneShape ==
    /\ spc = "done" =>
        /\ Len(successive_shapes) = IF num_octave = 0 THEN 1 ELSE num_octave
        /\ \A k \in DOMAIN successive_shapes :
              successive_shapes[k]
                = scaled_shape(original_shape, octave_scale,
                               Len(successive_shapes) - k)
        /\ successive_shapes[Len(successive_shapes)] = original_shape
    /\ OctavesDone =>
        /\ visited = successive_shapes
        /\ NonDecreasing(visited)
        /\ visited[Len(visited)] = original_shape
        /\ HasResolution(heap[img], original_shape)

\* A run over as many octaves as the bound allows, each of another shape than
\* the one before, completed with updates applied in its last octave.
C13_Witness ==
    /\ OctavesDone
    /\ num_octave = MaxOctave
    /\ Len(visited) = MaxOctave
    /\ \A k \in 1..(Len(visited) - 1) : visited[k] # visited[k + 1]
    /\ n_updates > 0

\* The array a holds a non-zero element.
NonZero(a) == \E k \in DOMAIN a.data : a.data[k] # 0

\* C16: once an octave has reinjected the detail, its image is, element by
\* element, what gradient_ascent returned in that octave, plus the original
\* resized to the octave's shape, minus the shrunk copy resized to that
\* shape; what gradient_ascent returned is its input plus step times the
\* gradients it applied, and nothing else was added.
C16_ReinjectionIsAdditive ==
    opc \in {"shrunk", "save"} =>
        /\ heap[img].data
             = [k \in DOMAIN asc_data |->
                   asc_data[k] + heap[same_size_original].data[k]
                     - heap[upscaled_shrunk_original_img].data[k]]
        /\ asc_data = [k \in DOMAIN input_data |->
                          input_data[k] + step * grad_sum[k]]
        /\ heap[same_size_original] = resize_img(heap[original_img], shape)
        /\ heap[original_img].data = base_data
        /\ (opc = "shrunk" =>
              heap[upscaled_shrunk_original_img]
                = resize_img(heap[shrunk_original_img], shape))

\* An octave after the first has applied updates and then reinjected a detail
\* that is not zero.
C16_Witness ==
    /\ opc = "save"
    /\ oct_k >= 2
    /\ n_updates > 0
    /\ NonZero(heap[lost_detail])
    /\ heap[img].data # asc_data

\* C17: with octave_scale = 1 and num_octave = 1 the one octave runs at the
\* original shape: gradient_ascent is called on an array equal to the
\* original image, with the iterations, step and max_loss of the run;
\* lost_detail is zero everywhere; and the final image is what that call
\* returned.
C17_NoOpResampleGivesAscentOutput ==
    (octave_scale = <<1, 1>> /\ num_octave = 1) =>
        /\ opc \in {"in_ascent", "upscale"} =>
              /\ input_data = base_data
              /\ HasResolution(heap[arg_x], original_shape)
        /\ opc \in {"reinject", "shrunk", "save"} => ~NonZero(heap[lost_detail])
        /\ OctavesDone =>
              /\ visited = <<original_shape>>
              /\ ~NonZero(heap[lost_detail])
              /\ input_data = base_data
              /\ asc_data = [k \in DOMAIN base_data |->
                                base_data[k] + step * grad_sum[k]]
              /\ heap[img] = NdArray(heap[original_img].shape, "float32",
                                     asc_data)
              /\ img = ret

\* Such a run completed after its ascent changed the image.
C17_Witness ==
    /\ OctavesDone
    /\ octave_scale = <<1, 1>>
    /\ num_octave = 1
    /\ n_updates = 2
    /\ NonZero(NdArray(<<Len(grad_sum)>>, "float32", grad_sum))
    /\ heap[img].data # base_data

\* The stages an octave goes through, in order.
OctaveStages == <<"resample", "ascend", "reinject">>

\* A step taken once the max_loss guard has been exceeded in the ascent of
\* the current octave: the break, then the return of x, then the assignment
\* of the result to img, the loop going on with the upscaling; nothing is
\* evaluated, updated or raised on the way.
StepAfterGuardTrip ==
    (opc = "in_ascent" /\ crossed) =>
        /\ pc \in {"check", "return", "returned"}
        /\ pc = "check" => pc' = "return" /\ opc' = opc
        /\ pc = "return" => pc' = "returned" /\ ret' = x /\ opc' = opc
        /\ pc = "returned" =>
              opc' = "upscale" /\ img' = ret /\ oct_k \in trips'
        /\ n_evals' = n_evals
        /\ n_updates' = n_updates
        /\ heap' = heap
        /\ oct_k' = oct_k

\* The order of the octaves and of their stages, and the count of the
\* reinjections, in every state of the run.
OctavesInOrder ==
    /\ visited = SubSeq(successive_shapes, 1, oct_k)
    /\ oct_k > 0 => shape = successive_shapes[oct_k]
    /\ stages =
         SubSeq(OctaveStages, 1,
                CASE opc \in {"ascend", "in_ascent", "raised"} -> 1
                  [] opc \in {"upscale", "same_size", "lost_detail",
                              "reinject"} -> 2
                  [] opc \in {"shrunk", "save"} -> 3
                  [] opc \in {"for", "final_save", "done"} /\ oct_k > 0 -> 3
                  [] OTHER -> 0)
    /\ n_reinjected =
         IF opc \in {"resize", "ascend", "in_ascent", "raised", "upscale",
                     "same_size", "lost_detail", "reinject"}
         THEN oct_k - 1 ELSE oct_k
    /\ crossed => pc # "raised"
    /\ trips \subseteq 1..oct_k
    /\ \A k \in trips : k <= n_reinjected \/ (k = oct_k /\ opc # "raised")
    /\ OctavesDone =>
          /\ visited = successive_shapes
          /\ n_reinjected = Len(successive_shapes)

\* C19: the loop enters the shapes of the list one after the other, each
\* once and none left out; inside an octave the image is resampled, then
\* ascended, then the detail is reinjected, once each; at the final save
\* every shape has had its octave and its reinjection.  An ascent that the
\* max_loss guard stopped does not raise: it returns, the octave goes on
\* with its reinjection, and the run is aborted by nothing but an exception
\* of the external model.
C19_OctavesInOrderAndGuardTripGoesOn ==
    /\ []OctavesInOrder
    /\ [][StepAfterGuardTrip]_vars

\* A run of three octaves or more completed, the guard having stopped the
\* ascent of the first octave and of no other.
C19_Witness ==
    /\ OctavesDone
    /\ Len(visited) >= 3
    /\ \A k \in 1..(Len(visited) - 1) : visited[k] # visited[k + 1]
    /\ trips = {1}
    /\ n_reinjected = Len(visited)
    /\ n_updates > 0

\* The external model raised in the call of gradient_ascent under way.
EvaluationFailed == pc = "raised"

\* The state the exception leaves: gradient_ascent stopped at the evaluation
\* that failed, the first after the updates applied so far, x as it was
\* passed to that evaluation, nothing returned; the octave not reinjected.
AbortedAtFailingStep ==
    EvaluationFailed =>
        /\ opc \in {"in_ascent", "raised"}
        /\ n_evals = n_updates + 1
        /\ heap[x].data = eval_data
        /\ ret = 0
        /\ img = arg_x
        /\ n_reinjected = oct_k - 1
        /\ n_saved = oct_k - 1
        /\ stages = <<"resample">>

\* A step taken once the evaluation has failed: the exception leaves the
\* loop, and nothing else changes.
StepAfterFailure ==
    EvaluationFailed =>
        /\ opc = "in_ascent"
        /\ opc' = "raised"
        /\ UNCHANGED <<heap, avars, svars>>
        /\ UNCHANGED <<img, original_img, shrunk_original_img,
                       upscaled_shrunk_original_img, same_size_original,
                       lost_detail, shape, oct_k, visited, asc_data,
                       n_reinjected, stages, trips, n_saved>>

\* The step in which the evaluation fails counts as one evaluation and
\* leaves every array as it was.
FailingStep ==
    (pc = "eval" /\ pc' = "raised") =>
        /\ n_evals' = n_evals + 1
        /\ n_updates' = n_updates
        /\ heap' = heap
        /\ loss_value' = loss_value
        /\ grad_values' = grad_values

\* C20: when the external model raises during an evaluation, in any step of
\* any octave, gradient_ascent stops at that evaluation, which is not made
\* again, and returns nothing; the exception ends the run over the octaves:
\* no evaluation, update, reinjection, octave or save follows, the final
\* save included.
C20_EvaluationFailureAbortsRun ==
    /\ []AbortedAtFailingStep
    /\ [][FailingStep]_vars
    /\ [][StepAfterFailure]_vars
    /\ [](opc = "raised" => EvaluationFailed)

\* The run was aborted in its second octave of three or more, by the
\* evaluation that followed an applied update.
C20_Witness ==
    /\ opc = "raised"
    /\ EvaluationFailed
    /\ oct_k = 2
    /\ Len(successive_shapes) >= 3
    /\ n_updates = 1
    /\ n_evals = 2
    /\ n_reinjected = 1

\* ------------------------------------------- gradient_ascent: further claims
\* step times the sum of the gradients applied is zero in every element.
NoNetChange == \A k \in DOMAIN grad_sum : step * grad_sum[k] = 0

\* C21 as stated: once gradient_ascent has returned, the array the caller
\* passed holds the elements it held at the call, and the result is another
\* array.
C21_ArgumentKeptAndResultSeparate ==
    Returned =>
        /\ heap[arg_x].data = input_data
        /\ ret # arg_x

\* C21 as amended: gradient_ascent makes no copy.  The result is the very
\* array the caller passed, no other array exists, and that array holds the
\* elements at the call plus step times the gradients applied; it holds the
\* elements at the call only when the updates applied add up to nothing.
C21_UpdatesArgumentInPlace ==
    /\ x = arg_x
    /\ Len(heap) = 1
    /\ Returned =>
        /\ ret = arg_x
        /\ heap[arg_x].data
             = [k \in DOMAIN input_data |-> input_data[k] + step * grad_sum[k]]
        /\ (heap[arg_x].data = input_data) <=> NoNetChange

\* A call returned after updates that changed the caller's array.
C21_Witness ==
    /\ Returned
    /\ n_updates >= 2
    /\ ret = arg_x
    /\ heap[arg_x].data # input_data

\* ----------------------------------------------- octave loop: further claims
\* The image as preprocess_image loaded it.
BaseImage ==
    NdArray(<<1, original_shape[1], original_shape[2], 3>>, "float32",
            base_data)

\* A statement that makes a new array (np.copy, resize_img, the subtraction)
\* leaves every array that existed as it was; a statement that makes none
\* writes at most into the array img or x names.
ArraysKept ==
    /\ Len(heap') >= Len(heap)
    /\ \A r \in DOMAIN heap :
          heap'[r] # heap[r] =>
              /\ Len(heap') = Len(heap)
              /\ r \in {img, x}
              /\ r \notin {1, original_img, shrunk_original_img,
                           upscaled_shrunk_original_img, same_size_original,
                           lost_detail}

\* C22: from the copy on, original_img names an array of its own that equals
\* the image as loaded, in every state of the run; the loaded image itself
\* stays as it was too; and no resize_img (nor any other statement that
\* makes an array) changes an existing array.
C22_OriginalNeverModified ==
    /\ [](heap[1] = BaseImage)
    /\ [](original_img # 0 =>
            /\ heap[original_img] = BaseImage
            /\ original_img \notin {img, x})
    /\ [][ArraysKept]_vars

\* The run completed after two or more octaves in which the dream was
\* updated and a detail that is not zero was reinjected.
C22_Witness ==
    /\ OctavesDone
    /\ n_reinjected >= 2
    /\ n_updates > 0
    /\ NonZero(heap[lost_detail])
    /\ heap[original_img] = BaseImage
    /\ heap[img] # BaseImage

\* The shape shrunk_original_img was last resized to: the shape of the
\* current octave once its statement ran, the shape of the octave before
\* until then, and the smallest shape in the first octave.
ShrunkShape ==
    IF oct_k >= 1 /\ opc \in {"save", "for", "final_save", "done"}
    THEN successive_shapes[oct_k]
    ELSE IF oct_k >= 2 THEN successive_shapes[oct_k - 1]
    ELSE successive_shapes[1]

\* C23: where the loop is entered, where the shrunk copy is used and where
\* it has just been replaced, it is the image as loaded resized to
\* ShrunkShape: every octave ends by replacing it with the original resized
\* to the octave's shape; so in every octave after the first the upscaled
\* copy is the original resized to the shape of the octave before and then
\* to the current shape, whatever the dream has become.
C23_ShrunkIsResizedOriginal ==
    /\ shrunk_original_img # 0 => shrunk_original_img # img
    /\ opc \in {"for", "upscale", "save", "done"} =>
          heap[shrunk_original_img] = resize_img(BaseImage, ShrunkShape)
    /\ (oct_k >= 2 /\ opc \in {"same_size", "lost_detail", "reinject",
                               "shrunk"}) =>
          heap[upscaled_shrunk_original_img]
            = resize_img(resize_img(BaseImage, successive_shapes[oct_k - 1]),
                         shape)

\* In a third octave the upscaled copy is computed while the dream that left
\* the second octave differs from the original at that octave's shape.
C23_Witness ==
    /\ opc = "same_size"
    /\ oct_k = 3
    /\ successive_shapes[2] # successive_shapes[3]
    /\ heap[shrunk_original_img] = resize_img(BaseImage, successive_shapes[2])
    /\ heap[upscaled_shrunk_original_img]
         # resize_img(resize_img(heap[img], successive_shapes[2]), shape)
    /\ 2 \notin trips
    /\ heap[upscaled_shrunk_original_img] # resize_img(BaseImage, shape)

\* Evaluations made so far in the run over the octaves.
TotalEvals == n_evals_done + IF opc = "in_ascent" THEN n_evals ELSE 0

\* What a call of gradient_ascent that returned has evaluated: once per
\* applied update, and once more if the guard stopped it; with max_loss None
\* exactly iterations times.
ReturnedCallCount ==
    (opc = "in_ascent" /\ pc = "returned") =>
        /\ n_evals = n_updates + (IF crossed THEN 1 ELSE 0)
        /\ max_loss = None => n_evals = iterations

\* Inside a call, no evaluation follows one whose loss exceeded max_loss.
NoEvaluationAfterTrip ==
    (opc = "in_ascent" /\ crossed) => n_evals' = n_evals

\* C24 as stated: a call evaluates at most iterations times, the call that
\* returned as ReturnedCallCount says, nothing after a tripped guard, and
\* the run over the octaves evaluates at most num_octave * iterations times.
C24_AtMostNumOctaveTimesIterations ==
    /\ n_evals <= iterations
    /\ ReturnedCallCount
    /\ TotalEvals <= num_octave * iterations

\* C24 as amended: the same, but the run evaluates at most once per
\* iteration and per shape of the list, which holds one shape when
\* num_octave = 0; and the call whose evaluation raised has evaluated once
\* more than it updated, no guard having tripped.
C24_AtMostShapesTimesIterations ==
    /\ [](n_evals <= iterations /\ i < iterations /\ n_updates <= n_evals)
    /\ []ReturnedCallCount
    /\ [](pc = "raised" => n_evals = n_updates + 1 /\ ~crossed)
    /\ [][NoEvaluationAfterTrip]_vars
    /\ [](TotalEvals <= oct_k * iterations)
    /\ [](spc = "done" =>
            /\ oct_k <= Len(successive_shapes)
            /\ Len(successive_shapes)
                 = IF num_octave = 0 THEN 1 ELSE num_octave)

\* A run of two octaves or more completed with as many evaluations as the
\* amended bound allows, the guard having stopped its last ascent.
C24_Witness ==
    /\ OctavesDone
    /\ num_octave >= 2
    /\ iterations = 2
    /\ TotalEvals = num_octave * iterations
    /\ crossed
    /\ n_updates = 1

\* The step that tests the guard: it leaves the loop exactly when the loss
\* just evaluated is above max_loss, and goes on to the update otherwise,
\* a loss equal to max_loss included.
GuardStep ==
    pc = "check" =>
        /\ pc' = "return" <=> (max_loss # None /\ loss_value.v > max_loss.v)
        /\ (max_loss # None /\ loss_value.v = max_loss.v) => pc' = "update"
        /\ pc' \in {"return", "update"}

\* The step that follows a guard that let the loss pass: the update is
\* applied, with the gradient of that evaluation.
UpdateStep ==
    pc = "update" =>
        /\ n_updates' = n_updates + 1
        /\ applied_loss' = loss_value
        /\ heap'[x] = iadd(heap[x], step, grad_values)

\* C25: the guard compares with >: after a loss equal to max_loss the loop
\* goes on and the update of that step is applied; the loop is left at the
\* guard only after a loss above max_loss; so every update applied followed
\* a loss of at most max_loss, and a call that returns with iterations left
\* met a loss above it.
C25_GuardComparesStrictly ==
    /\ [][GuardStep]_vars
    /\ [][UpdateStep]_vars
    /\ []((applied_loss # None /\ max_loss # None)
            => applied_loss.v <= max_loss.v)
    /\ []((Returned /\ n_evals < iterations) =>
            /\ max_loss # None
            /\ loss_value.v > max_loss.v)

\* The second step of a call met a loss equal to max_loss, its update was
\* applied and changed the array, and the loop went on.
C25_Witness ==
    /\ pc = "eval"
    /\ i = 2
    /\ n_updates = 2
    /\ max_loss # None
    /\ applied_loss # None
    /\ applied_loss.v = max_loss.v
    /\ GradientNonZero
    /\ heap[x].data # eval_data

\* ----------------------------------------------- Evaluator: further claims
\* Every external evaluation made so far has returned.
EvaluationsSucceeded == n_fetch = n_pairs
\* The last call raised nothing (or no call was made yet).
LastCallOk == e_call.status \in {"none", "ok"}

GradientPending == self_grad_values \notin {None, NoAttribute}

\* C27: the cache holds a whole pair or nothing: a loss is cached exactly
\* when a gradient is, both then come from the same evaluation, and of the
\* pairs computed all but at most one (the cached one) have been handed out.
C27_WholePairOrNothing ==
    /\ Pending <=> GradientPending
    /\ Pending =>
        /\ pending_outs # None
        /\ self_loss_value = pending_outs.loss
        /\ self_grad_values.data = pending_outs.grads.data
    /\ n_pairs - n_grads_accepted = (IF Pending THEN 1 ELSE 0)
    /\ self_grads_values = None

\* A second pair is cached after the first one was handed out, and a third
\* loss call, refused, has not replaced it.
C27_Witness ==
    /\ Pending
    /\ GradientPending
    /\ n_pairs = 2
    /\ n_grads_accepted = 1
    /\ e_call.op = "loss"
    /\ e_call.status = "AssertionError"

\* C28: a loss call refused by its assertion evaluates nothing and leaves
\* the cached pair as it was; the grads call that follows it is accepted and
\* returns the gradient computed by the earlier, accepted loss call.
C28_RefusedLossKeepsPair ==
    /\ [][(IsLossCall /\ e_call'.status = "AssertionError")
            => /\ Pending
               /\ UNCHANGED <<n_fetch, n_loss_accepted, n_pairs,
                              self_loss_value, self_grad_values,
                              pending_outs, pending_x>>]_vars
    /\ [][(IsGradsCall /\ e_call.op = "loss"
                       /\ e_call.status = "AssertionError")
            => /\ e_call'.status = "ok"
               /\ e_call'.value.data = pending_outs.grads.data
               /\ e_call'.value.data = self_grad_values.data
               /\ UNCHANGED <<n_fetch, pending_outs, pending_x>>]_vars
    /\ []((loss_refused /\ Pending) =>
            /\ self_loss_value = pending_outs.loss
            /\ self_grad_values.data = pending_outs.grads.data)

\* A loss was computed, a second loss call for another candidate was
\* refused, and grads then returned the gradient of the first; the model
\* was evaluated once.
C28_Witness ==
    /\ n_calls = 3
    /\ n_fetch = 1
    /\ n_pairs = 1
    /\ loss_refused
    /\ e_call.op = "grads"
    /\ e_call.status = "ok"
    /\ e_call.value.data = pending_outs.grads.data
    /\ ~Pending

\* C29: when the external evaluation raises inside loss, the call ends in
\* that error and changes no attribute of the Evaluator: nothing is cached,
\* so a grads call that follows is refused and a loss call that follows is
\* accepted.
C29_FailedEvaluationCachesNothing ==
    /\ [][(IsLossCall /\ e_call'.status = "EvaluationError")
            => /\ ~Pending
               /\ n_fetch' = n_fetch + 1
               /\ e_call'.value = None
               /\ UNCHANGED <<self_loss_value, self_grad_values,
                              self_grads_values, n_pairs,
                              pending_outs, pending_x>>]_vars
    /\ []((e_call.status = "EvaluationError") =>
            /\ e_call.op = "loss"
            /\ ~Pending
            /\ ~GradientPending)
    /\ [][(IsGradsCall /\ e_call.status = "EvaluationError")
            => /\ e_call'.status = "AssertionError"
               /\ UNCHANGED <<self_loss_value, self_grad_values>>]_vars
    /\ [][(IsLossCall /\ e_call.status = "EvaluationError")
            => /\ e_call'.status \in {"ok", "EvaluationError"}
               /\ n_loss_accepted' = n_loss_accepted + 1]_vars

\* The evaluation of the first loss call raised, the grads call after it was
\* refused, and the loss call after that was accepted and returned a loss.
C29_Witness ==
    /\ alternates
    /\ n_calls = 3
    /\ n_fetch = 2
    /\ n_pairs = 1
    /\ n_grads_accepted = 0
    /\ e_call.op = "loss"
    /\ e_call.status = "ok"
    /\ Pending

\* ------------------------------------------------ octave loop: first octave
\* The loop is in its first octave, at the smallest shape.
FirstOctave == oct_k = 1

\* C30: in the first octave the shrunk copy already has the octave's shape,
\* so resizing it to that shape changes nothing, the upscaled copy equals the
\* original resized to that shape and lost_detail is zero everywhere; the
\* image that leaves the first octave is what gradient_ascent returned, and
\* gradient_ascent was given the original resized to the smallest shape.
C30_FirstOctaveReinjectsNothing ==
    FirstOctave =>
        /\ shape = successive_shapes[1]
        /\ opc \in {"upscale", "same_size"} =>
              HasResolution(heap[shrunk_original_img], shape)
        /\ opc = "same_size" =>
              /\ heap[upscaled_shrunk_original_img] = heap[shrunk_original_img]
              /\ heap[upscaled_shrunk_original_img]
                   = resize_img(BaseImage, shape)
        /\ opc = "lost_detail" =>
              heap[same_size_original] = heap[upscaled_shrunk_original_img]
        /\ opc \in {"reinject", "shrunk", "save", "for"} =>
              /\ HasResolution(heap[lost_detail], shape)
              /\ ~NonZero(heap[lost_detail])
        /\ opc \in {"upscale", "for"} =>
              input_data = resize_img(BaseImage, successive_shapes[1]).data
        /\ opc \in {"shrunk", "save", "for"} =>
              /\ img = ret
              /\ asc_data = [k \in DOMAIN input_data |->
                                input_data[k] + step * grad_sum[k]]
              /\ heap[img] = NdArray(<<1, shape[1], shape[2], 3>>, "float32",
                                     asc_data)

\* A run of several octaves whose smallest shape is not the original one has
\* left its first octave: the ascent changed the image, the detail reinjected
\* was zero, and the image is what the ascent returned.
C30_Witness ==
    /\ FirstOctave
    /\ opc = "for"
    /\ num_octave >= 2
    /\ successive_shapes[1] # original_shape
    /\ n_updates > 0
    /\ asc_data # input_data
    /\ ~NonZero(heap[lost_detail])
    /\ heap[img].data = asc_data

====
